---- MODULE Spec2Model ----
(***************************************************************************)
(* Model of function-app/function_app.py: the Event Grid handler           *)
(* ptu_ri_alert_function and its helper check_ptu_capacity.                *)
(*                                                                         *)
(* Strings are sequences over an alphabet whose letters are written as     *)
(* TLA+ strings ("/" is one letter, "Microsoft.CognitiveServices" is one   *)
(* letter, ...). Python's `in`, split, lower, startswith and == are        *)
(* modelled on these sequences letter by letter.                           *)
(*                                                                         *)
(* An optional value (a JSON null, a missing SDK attribute) is a record    *)
(* [isNone, v].                                                            *)
(***************************************************************************)
EXTENDS Integers, Sequences, FiniteSets, TLC

VARIABLES
    event,                \* the EventGridEvent handed to the handler
    pc,                   \* position in ptu_ri_alert_function / check_ptu_capacity
    operation_name,       \* line 30
    parts,                \* line 43
    subscription_id,      \* line 44
    resource_group,       \* line 45
    account_name,         \* line 46
    deployment_name,      \* line 47, the argument of check_ptu_capacity
    total_deployed_ptus,  \* line 89
    new_deployment_ptus,  \* line 90
    deployments,          \* records the deployment iterator of line 93 has yielded so far
    total_reserved_ptus,  \* line 112
    orders,               \* number of reservation orders the iterator of line 119 has yielded
    reservations,         \* records the reservation iterators of line 120 have yielded so far
    log,                  \* the logging side channel, in order
    result                \* what the handler returned to the platform

vars == << event, pc, operation_name, parts, subscription_id, resource_group,
           account_name, deployment_name, total_deployed_ptus,
           new_deployment_ptus, deployments, total_reserved_ptus, orders,
           reservations, log, result >>

----------------------------------------------------------------------------
(* Bounds of the model *)

\* deployments one enumeration yields at most
MaxDeps == 2
\* reservation orders one enumeration yields at most
MaxOrders == 2
\* reservations yielded at most, over all orders of one enumeration
MaxReservations == 2

----------------------------------------------------------------------------
(* Python values *)

NoneStr == [isNone |-> TRUE, v |-> <<>>]

SomeStr(s) == [isNone |-> FALSE, v |-> s]

NoneInt == [isNone |-> TRUE, v |-> 0]

SomeInt(n) == [isNone |-> FALSE, v |-> n]

\* truth value of an optional string: None and '' are falsy
TruthyStr(x) == ~x.isNone /\ x.v # <<>>

\* a missing value counted as the sentinel -1 instead of 0
OrMinusOne(x) == IF x.isNone THEN -1 ELSE x.v

\* `x or 0` on an optional integer (lines 96, 123): None and 0 both give 0
OrZero(x) == IF x.isNone \/ x.v = 0 THEN 0 ELSE x.v

\* needle in haystack, on strings
Contains(haystack, needle) ==
    \E i \in 1..(Len(haystack) + 1) :
        /\ i + Len(needle) - 1 <= Len(haystack)
        /\ \A j \in 1..Len(needle) : haystack[i + j - 1] = needle[j]

\* s.startswith(prefix)
StartsWith(s, prefix) ==
    /\ Len(prefix) <= Len(s)
    /\ SubSeq(s, 1, Len(prefix)) = prefix

\* str.lower() of one letter of the alphabet
LowerLetter(c) ==
    CASE c = "Provisioned" -> "provisioned"
      [] c = "PROVISIONED" -> "provisioned"
      [] c = "Managed" -> "managed"
      [] c = "Standard" -> "standard"
      [] c = "Global" -> "global"
      [] c = "Throughput" -> "throughput"
      [] OTHER -> c

\* s.lower()
Lower(s) == [i \in 1..Len(s) |-> LowerLetter(s[i])]

\* index of the first "/" of s, 0 if there is none
FirstSlash(s) ==
    IF \E i \in 1..Len(s) : s[i] = "/"
    THEN CHOOSE i \in 1..Len(s) : s[i] = "/" /\ \A j \in 1..(i - 1) : s[j] # "/"
    ELSE 0

RECURSIVE Split(_)
\* s.split('/')
Split(s) ==
    IF FirstSlash(s) = 0
    THEN << s >>
    ELSE << SubSeq(s, 1, FirstSlash(s) - 1) >> \o Split(SubSeq(s, FirstSlash(s) + 1, Len(s)))

----------------------------------------------------------------------------
(* The literals of the source *)

\* 'Microsoft.CognitiveServices/accounts', line 37
ResourceTypeMarker == << "Microsoft.CognitiveServices", "/", "accounts" >>

\* 'deployments/write', line 37
DeploymentWriteMarker == << "deployments", "/", "write" >>

\* 'N/A', line 30
NotAvailable == << "N", "/", "A" >>

\* 'unknown', line 47
Unknown == << "unknown" >>

\* 'provisioned', line 95
ProvisionedPrefix == << "provisioned" >>

\* 'Provisioned Throughput', line 122
PTUMarker == << "Provisioned", " ", "Throughput" >>

----------------------------------------------------------------------------
(* The inputs: events the platform delivers, records the SDK iterators yield *)

SubscriptionPath ==
    << "/", "subscriptions", "/", "sub1", "/", "resourceGroups", "/", "rg1", "/", "providers" >>

\* /subscriptions/sub1/resourceGroups/rg1/providers/Microsoft.CognitiveServices/accounts/acct1
AccountSubject ==
    SubscriptionPath \o << "/", "Microsoft.CognitiveServices", "/", "accounts", "/", "acct1" >>

\* the subject of a deployment write: 11 segments, the last one the deployment
DeploymentSubject == AccountSubject \o << "/", "deployments", "/", "d1" >>

\* 10 segments: the deployments collection of the account
CollectionSubject == AccountSubject \o << "/", "deployments" >>

\* a relative resource id: contains the resource type, 5 segments
RelativeSubject ==
    << "Microsoft.CognitiveServices", "/", "accounts", "/", "acct1", "/", "deployments", "/", "d1" >>

\* another resource provider
StorageSubject ==
    SubscriptionPath \o << "/", "Microsoft.Storage", "/", "storageAccounts", "/", "st1" >>

\* the provider, but not an account
LocationSubject ==
    SubscriptionPath \o << "/", "Microsoft.CognitiveServices", "/", "locations", "/", "eastus" >>

Subjects ==
    { DeploymentSubject, CollectionSubject, AccountSubject, RelativeSubject,
      StorageSubject, LocationSubject }

\* Microsoft.CognitiveServices/accounts/deployments/write, as Azure sends it
WriteOperation ==
    << "Microsoft.CognitiveServices", "/", "accounts", "/", "deployments", "/", "write" >>

DeleteOperation ==
    << "Microsoft.CognitiveServices", "/", "accounts", "/", "deployments", "/", "delete" >>

\* the payload of an event: any JSON value; of a JSON object only the
\* operationName member matters (absent, null or a string)
ObjectPayload(has, op) == [isObject |-> TRUE, hasOperationName |-> has, operationName |-> op]

Payloads ==
    { [isObject |-> FALSE, hasOperationName |-> FALSE, operationName |-> NoneStr],
      ObjectPayload(FALSE, NoneStr),
      ObjectPayload(TRUE, NoneStr),
      ObjectPayload(TRUE, SomeStr(WriteOperation)),
      ObjectPayload(TRUE, SomeStr(DeleteOperation)) }

Events ==
    [ id : {"e1"}, event_type : {"Microsoft.Resources.ResourceWriteSuccess"},
      subject : Subjects, data : Payloads ]

NoSku == [isNone |-> TRUE, name |-> NoneStr, capacity |-> NoneInt]

SkuNames ==
    { NoneStr,
      SomeStr(<< "Provisioned", "Managed" >>),
      SomeStr(<< "provisioned", "-managed" >>),
      SomeStr(<< "Global", "Provisioned", "Managed" >>),
      SomeStr(<< "Standard" >>) }

Capacities == { NoneInt, SomeInt(10), SomeInt(20) }

Skus == {NoSku} \cup [isNone : {FALSE}, name : SkuNames, capacity : Capacities]

\* what cog_client.deployments.list yields
DeploymentRecords == [ name : { << "d1" >>, << "d2" >> }, sku : Skus ]

SkuDescriptions ==
    { NoneStr,
      SomeStr(<< "Azure OpenAI Service", " ", "Provisioned", " ", "Throughput" >>),
      SomeStr(<< "provisioned", " ", "throughput" >>),
      SomeStr(<< "Reserved VM Instance" >>) }

Quantities == { NoneInt, SomeInt(10), SomeInt(25) }

\* what reservation_client.reservation.list yields
ReservationRecords ==
    { [sku_description |-> NoneStr, quantity |-> NoneInt] }
    \cup [ sku_description : SkuDescriptions \ {NoneStr}, quantity : Quantities ]

----------------------------------------------------------------------------
(* ptu_ri_alert_function *)

Line(msg, n) == [msg |-> msg, n |-> n]

Logged(msg) == \E i \in 1..Len(log) : log[i].msg = msg

Init ==
    /\ event \in Events
    /\ pc = "start"
    /\ operation_name = NoneStr
    /\ parts = << >>
    /\ subscription_id = << >>
    /\ resource_group = << >>
    /\ account_name = << >>
    /\ deployment_name = << >>
    /\ total_deployed_ptus = 0
    /\ new_deployment_ptus = 0
    /\ deployments = << >>
    /\ total_reserved_ptus = 0
    /\ orders = 0
    /\ reservations = << >>
    /\ log = << >>
    /\ result = [status |-> "none", event_id |-> "", event_type |-> ""]

argVars == << parts, subscription_id, resource_group, account_name, deployment_name >>

checkVars ==
    << total_deployed_ptus, new_deployment_ptus, deployments, total_reserved_ptus,
       orders, reservations >>

\* event_data.get('operationName', 'N/A')
GetOperationName(data) ==
    IF data.hasOperationName THEN data.operationName ELSE SomeStr(NotAvailable)

\* lines 16-34: event.get_json() and the two .get calls; a payload that is
\* not a JSON object has no .get, and the AttributeError leaves the handler
ReadEvent ==
    /\ pc = "start"
    /\ IF event.data.isObject
       THEN /\ operation_name' = GetOperationName(event.data)
            /\ log' = Append(log, Line("event", 0))
            /\ pc' = "filter"
       ELSE /\ pc' = "raised"
            /\ UNCHANGED << operation_name, log >>
    /\ UNCHANGED << event, result >>
    /\ UNCHANGED argVars
    /\ UNCHANGED checkVars

\* the condition of line 37 with `or` in place of `and`
IsDeploymentEventOr(subject, op) ==
    \/ Contains(subject, ResourceTypeMarker)
    \/ Contains(op, DeploymentWriteMarker)

\* the condition of line 37, for an operation name that is a string
IsDeploymentEvent(subject, op) ==
    /\ Contains(subject, ResourceTypeMarker)
    /\ Contains(op, DeploymentWriteMarker)

\* line 37 evaluates `'deployments/write' in operation_name` only when the
\* subject test is true (`and` short-circuits); on None it is a TypeError
FilterRaises(subject, op) ==
    /\ Contains(subject, ResourceTypeMarker)
    /\ op.isNone

\* lines 37-39 and 60-61: the filter; a TypeError here leaves the handler
Filter ==
    /\ pc = "filter"
    /\ IF FilterRaises(event.subject, operation_name)
       THEN /\ pc' = "raised"
            /\ UNCHANGED log
       ELSE IF IsDeploymentEvent(event.subject, operation_name.v)
       THEN /\ log' = Append(log, Line("AI deployment detected", 0))
            /\ pc' = "extract"
       ELSE /\ log' = Append(log, Line("skipping PTU check", 0))
            /\ pc' = "complete"
    /\ UNCHANGED << event, operation_name, result >>
    /\ UNCHANGED argVars
    /\ UNCHANGED checkVars

\* line 47 with the last segment in place of the sentinel
DeploymentNameLast(p) == IF Len(p) > 10 THEN p[11] ELSE p[Len(p)]

\* line 47; parts[10] of the source is p[11] here
DeploymentName(p) == IF Len(p) > 10 THEN p[11] ELSE Unknown

\* lines 44-46 index parts[2], parts[4] and parts[8]: an IndexError unless
\* the split has at least 9 segments
ExtractRaises(p) == Len(p) < 9

\* lines 43-59 and 78-80: the subject is split and its segments extracted;
\* an IndexError is caught by the handler's except of line 57, otherwise
\* check_ptu_capacity is called
ParseSubject ==
    /\ pc = "extract"
    /\ parts' = Split(event.subject)
    /\ IF ExtractRaises(parts')
       THEN /\ log' = Append(log, Line("Error processing deployment event", 0))
            /\ pc' = "complete"
            /\ UNCHANGED << subscription_id, resource_group, account_name, deployment_name >>
       ELSE /\ subscription_id' = parts'[3]
            /\ resource_group' = parts'[5]
            /\ account_name' = parts'[9]
            /\ deployment_name' = DeploymentName(parts')
            /\ log' = Append(log, Line("PTU CAPACITY CHECK", 0))
            /\ pc' = "credential"
    /\ UNCHANGED << event, operation_name, result >>
    /\ UNCHANGED checkVars

\* lines 63-71: the handler logs completion and returns the status object
Complete ==
    /\ pc = "complete"
    /\ log' = Append(log, Line("Event processing complete", 0))
    /\ result' = [status |-> "success", event_id |-> event.id, event_type |-> event.event_type]
    /\ pc' = "returned"
    /\ UNCHANGED << event, operation_name >>
    /\ UNCHANGED argVars
    /\ UNCHANGED checkVars

----------------------------------------------------------------------------
(* check_ptu_capacity *)

handlerVars ==
    << event, operation_name, parts, subscription_id, resource_group, account_name,
       deployment_name, result >>

\* line 83: DefaultAzureCredential()
GetCredential ==
    /\ pc = "credential"
    /\ pc' = "cog_client"
    /\ UNCHANGED log
    /\ UNCHANGED handlerVars
    /\ UNCHANGED checkVars

\* lines 86-93: the client is created, the totals start at 0 and list()
\* hands back an iterator that has fetched nothing yet
CreateClient ==
    /\ pc = "cog_client"
    /\ total_deployed_ptus' = 0
    /\ new_deployment_ptus' = 0
    /\ deployments' = << >>
    /\ pc' = "deployment_loop"
    /\ UNCHANGED << total_reserved_ptus, orders, reservations, log >>
    /\ UNCHANGED handlerVars

\* line 95 without .lower()
IsProvisionedCaseSensitive(dep) ==
    /\ ~dep.sku.isNone
    /\ TruthyStr(dep.sku.name)
    /\ StartsWith(dep.sku.name.v, ProvisionedPrefix)

\* line 95: dep.sku and dep.sku.name and dep.sku.name.lower().startswith('provisioned')
IsProvisioned(dep) ==
    /\ ~dep.sku.isNone
    /\ TruthyStr(dep.sku.name)
    /\ StartsWith(Lower(dep.sku.name.v), ProvisionedPrefix)

\* lines 100-101 moved out of the `if` of line 95
NewDeploymentPtusAnySku(dep, target, current) ==
    IF dep.name = target THEN OrZero(dep.sku.capacity) ELSE current

\* lines 95-101: new_deployment_ptus after one deployment
NewDeploymentPtus(dep, target, current) ==
    IF IsProvisioned(dep) /\ dep.name = target THEN OrZero(dep.sku.capacity) ELSE current

\* lines 95-97: total_deployed_ptus after one deployment
TotalDeployedPtus(dep, current) ==
    IF IsProvisioned(dep) THEN current + OrZero(dep.sku.capacity) ELSE current

\* lines 94-102: one iteration of the loop over the deployments
NextDeployment ==
    /\ pc = "deployment_loop"
    /\ Len(deployments) < MaxDeps
    /\ \E dep \in DeploymentRecords :
        /\ deployments' = Append(deployments, dep)
        /\ total_deployed_ptus' = TotalDeployedPtus(dep, total_deployed_ptus)
        /\ new_deployment_ptus' = NewDeploymentPtus(dep, deployment_name, new_deployment_ptus)
    /\ UNCHANGED << pc, total_reserved_ptus, orders, reservations, log >>
    /\ UNCHANGED handlerVars

\* lines 104-108: the iterator is exhausted and the total is logged
DeploymentsExhausted ==
    /\ pc = "deployment_loop"
    /\ log' = Append(log, Line("Total deployed PTUs", total_deployed_ptus))
    /\ pc' = "deployments_listed"
    /\ UNCHANGED handlerVars
    /\ UNCHANGED checkVars

\* lines 165-167 without the try of line 82: the exception reaches the except
\* of the handler, line 57
CheckerFailsPropagates ==
    /\ pc \in {"credential", "cog_client", "deployment_loop"}
    /\ log' = Append(log, Line("Error processing deployment event", 0))
    /\ pc' = "complete"
    /\ UNCHANGED handlerVars
    /\ UNCHANGED checkVars

\* lines 165-167: the credential, the client or a page of deployments raised;
\* the except of check_ptu_capacity logs it and the function returns
CheckerFails ==
    /\ pc \in {"credential", "cog_client", "deployment_loop"}
    /\ log' = Append(log, Line("Error checking PTU capacity", 0))
    /\ pc' = "complete"
    /\ UNCHANGED handlerVars
    /\ UNCHANGED checkVars

\* lines 111-113: step 2 starts with a reserved total of 0; the deployment
\* iterator is spent and holds no record any more
StartReservations ==
    /\ pc = "deployments_listed"
    /\ total_reserved_ptus' = 0
    /\ orders' = 0
    /\ reservations' = << >>
    /\ deployments' = << >>
    /\ pc' = "reservation_client"
    /\ UNCHANGED << total_deployed_ptus, new_deployment_ptus, log >>
    /\ UNCHANGED handlerVars

\* line 116: AzureReservationAPI(credential)
CreateReservationClient ==
    /\ pc = "reservation_client"
    /\ pc' = "order_loop"
    /\ UNCHANGED log
    /\ UNCHANGED handlerVars
    /\ UNCHANGED checkVars

\* line 119: the order iterator yields one more order
NextOrder ==
    /\ pc = "order_loop"
    /\ orders < MaxOrders
    /\ orders' = orders + 1
    /\ pc' = "reservation_loop"
    /\ UNCHANGED << total_deployed_ptus, new_deployment_ptus, deployments,
                    total_reserved_ptus, reservations, log >>
    /\ UNCHANGED handlerVars

\* line 122 with a case-insensitive test
IsPTUReservationAnyCase(reservation) ==
    /\ TruthyStr(reservation.sku_description)
    /\ Contains(Lower(reservation.sku_description.v), Lower(PTUMarker))

\* line 122: reservation.sku_description and 'Provisioned Throughput' in reservation.sku_description
IsPTUReservation(reservation) ==
    /\ TruthyStr(reservation.sku_description)
    /\ Contains(reservation.sku_description.v, PTUMarker)

\* lines 122-124: total_reserved_ptus after one reservation
TotalReservedPtus(reservation, current) ==
    IF IsPTUReservation(reservation) THEN current + OrZero(reservation.quantity) ELSE current

\* lines 120-125: one iteration of the loop over the reservations of an order
NextReservation ==
    /\ pc = "reservation_loop"
    /\ Len(reservations) < MaxReservations
    /\ \E reservation \in ReservationRecords :
        /\ reservations' = Append(reservations, reservation)
        /\ total_reserved_ptus' = TotalReservedPtus(reservation, total_reserved_ptus)
    /\ UNCHANGED << pc, total_deployed_ptus, new_deployment_ptus, deployments, orders, log >>
    /\ UNCHANGED handlerVars

\* line 120: the reservations of the order are exhausted, back to line 119
ReservationsExhausted ==
    /\ pc = "reservation_loop"
    /\ pc' = "order_loop"
    /\ UNCHANGED log
    /\ UNCHANGED handlerVars
    /\ UNCHANGED checkVars

\* line 119: the orders are exhausted, the try of line 115 ends normally
OrdersExhausted ==
    /\ pc = "order_loop"
    /\ pc' = "report"
    /\ UNCHANGED log
    /\ UNCHANGED handlerVars
    /\ UNCHANGED checkVars

\* lines 127-129 with the exception raised again, to the except of line 165
ReservationFailsAbort ==
    /\ pc \in {"reservation_client", "order_loop", "reservation_loop"}
    /\ log' = log \o << Line("Could not query reservations", 0),
                         Line("Error checking PTU capacity", 0) >>
    /\ pc' = "complete"
    /\ UNCHANGED handlerVars
    /\ UNCHANGED checkVars

\* lines 127-129: the reservation client, the orders or the reservations of
\* an order raised; the inner except logs a warning and step 3 follows
ReservationFails ==
    /\ pc \in {"reservation_client", "order_loop", "reservation_loop"}
    /\ log' = Append(log, Line("Could not query reservations", 0))
    /\ pc' = "report"
    /\ UNCHANGED handlerVars
    /\ UNCHANGED checkVars

\* lines 142-153 with < in place of <=
ClassifyStrict(deployed, reserved) ==
    IF reserved = 0 THEN "NO RESERVATIONS FOUND"
    ELSE IF deployed < reserved THEN "FULLY COVERED"
    ELSE "EXCEEDS RESERVATIONS"

\* lines 142, 146 and 153: which branch of the report is taken
Classify(deployed, reserved) ==
    IF reserved = 0 THEN "NO RESERVATIONS FOUND"
    ELSE IF deployed <= reserved THEN "FULLY COVERED"
    ELSE "EXCEEDS RESERVATIONS"

\* lines 142-161: the lines of the report; n is the number the branch computes
\* (the deployed total, available, excess)
ReportLines(deployed, reserved, new) ==
    IF Classify(deployed, reserved) = "NO RESERVATIONS FOUND"
    THEN << Line("NO RESERVATIONS FOUND", deployed) >>
    ELSE IF Classify(deployed, reserved) = "FULLY COVERED"
    THEN << Line("FULLY COVERED", reserved - deployed), Line("New deployment is covered", new) >>
    ELSE << Line("EXCEEDS RESERVATIONS", deployed - reserved) >>
         \o (IF new > 0 THEN << Line("New deployment may be billed hourly", new) >> ELSE << >>)

\* lines 131-163: the reserved total is logged, the totals are compared and
\* check_ptu_capacity returns to line 55
Report ==
    /\ pc = "report"
    /\ log' = Append(log, Line("Total reserved PTUs", total_reserved_ptus))
                \o ReportLines(total_deployed_ptus, total_reserved_ptus, new_deployment_ptus)
    /\ pc' = "complete"
    /\ UNCHANGED handlerVars
    /\ UNCHANGED checkVars

----------------------------------------------------------------------------

Next ==
    \/ ReadEvent
    \/ Filter
    \/ ParseSubject
    \/ GetCredential
    \/ CreateClient
    \/ NextDeployment
    \/ DeploymentsExhausted
    \/ CheckerFails
    \/ StartReservations
    \/ CreateReservationClient
    \/ NextOrder
    \/ NextReservation
    \/ ReservationsExhausted
    \/ OrdersExhausted
    \/ ReservationFails
    \/ Report
    \/ Complete

Spec == Init /\ [][Next]_vars

----------------------------------------------------------------------------
(* What the claims speak of *)

Success == [status |-> "success", event_id |-> event.id, event_type |-> event.event_type]

\* check_ptu_capacity has been called
CheckerInvoked == Logged("PTU CAPACITY CHECK")

Outcomes == {"NO RESERVATIONS FOUND", "FULLY COVERED", "EXCEEDS RESERVATIONS"}

\* the classification lines in the log
OutcomeLines == {i \in 1..Len(log) : log[i].msg \in Outcomes}

\* the operation-name field of the event as the claims read it: a string when
\* the payload is an object whose operationName is a string, 'N/A' when the
\* member is absent
OperationNameField ==
    IF event.data.hasOperationName THEN event.data.operationName.v ELSE NotAvailable

OperationNameIsString ==
    event.data.isObject /\ (event.data.hasOperationName => ~event.data.operationName.isNone)

SubjectHasMarker == Contains(event.subject, ResourceTypeMarker)

\* C1: the handler returns {status: "success", event id, event type} for every
\* event, whatever fails inside; no exception leaves ptu_ri_alert_function.
C1_AlwaysReturnsSuccess ==
    /\ pc # "raised"
    /\ pc = "returned" => result = Success

\* C2 as stated: the checker is invoked only when the subject contains the
\* resource-type marker and the operation name EQUALS 'deployments/write';
\* every other event never invokes it and, once handled, has logged 'skipped'
\* and returned success.
C2_OriginalEquals ==
    LET passes == /\ SubjectHasMarker
                  /\ OperationNameIsString
                  /\ OperationNameField = DeploymentWriteMarker
    IN  /\ CheckerInvoked => passes
        /\ ~passes => /\ ~CheckerInvoked
                      /\ pc = "returned" => Logged("skipping PTU check") /\ result = Success

\* C2 as amended: the checker is invoked only when the subject contains the
\* resource-type marker and the operation name is a string that CONTAINS
\* 'deployments/write'. An event whose subject lacks the marker, or whose
\* operation name is a string (or absent, read as 'N/A') without the marker,
\* never invokes it, logs 'skipped' and returns success. An event whose
\* payload is no object, or whose subject has the marker while the operation
\* name is null, raises out of the handler before anything is decided: no
\* check, no 'skipped', no result.
C2_FilterContains ==
    LET passes  == /\ SubjectHasMarker
                   /\ OperationNameIsString
                   /\ Contains(OperationNameField, DeploymentWriteMarker)
        raises  == \/ ~event.data.isObject
                   \/ SubjectHasMarker /\ ~OperationNameIsString
    IN  IF pc \in {"start", "filter"}
        THEN log = << >> \/ log = << Line("event", 0) >>
        ELSE IF pc = "raised" \/ raises
        THEN /\ pc = "raised"
             /\ raises
             /\ ~CheckerInvoked
             /\ ~Logged("AI deployment detected")
             /\ ~Logged("skipping PTU check")
             /\ result.status = "none"
        ELSE IF CheckerInvoked \/ Logged("AI deployment detected") \/ passes
        THEN /\ passes
             /\ Logged("AI deployment detected")
             /\ ~Logged("skipping PTU check")
        ELSE /\ Logged("skipping PTU check")
             /\ pc \in {"complete", "returned"}
             /\ pc = "returned" => result = Success

\* a deployment write as Azure names it reached the checker: the operation
\* name contains the marker and is not equal to it
C2_Witness ==
    /\ CheckerInvoked
    /\ OperationNameField = WriteOperation
    /\ pc = "returned"

\* C3: a check that reaches the comparison emits exactly one of the three
\* outcomes, fixed by the two totals alone: 'no reservations' iff reserved = 0;
\* 'fully covered' iff reserved # 0 and deployed <= reserved, with the slack
\* reserved - deployed >= 0; 'exceeds' iff reserved # 0 and deployed > reserved,
\* with the excess deployed - reserved > 0. (35,100) is covered with slack 65,
\* (150,100) exceeds by 50, (10,0) has no reservations.
C3_Classification ==
    LET d == total_deployed_ptus
        r == total_reserved_ptus
        HasLine(msg, n) == \E i \in OutcomeLines : log[i] = Line(msg, n)
        HasMsg(msg) == \E i \in OutcomeLines : log[i].msg = msg
    IN  /\ Logged("Total reserved PTUs") =>
              /\ Cardinality(OutcomeLines) = 1
              /\ HasMsg("NO RESERVATIONS FOUND") <=> r = 0
              /\ HasMsg("FULLY COVERED") <=> (r # 0 /\ d <= r)
              /\ HasMsg("EXCEEDS RESERVATIONS") <=> (r # 0 /\ d > r)
              /\ HasMsg("NO RESERVATIONS FOUND") => HasLine("NO RESERVATIONS FOUND", d)
              /\ HasMsg("FULLY COVERED") => HasLine("FULLY COVERED", r - d) /\ r - d >= 0
              /\ HasMsg("EXCEEDS RESERVATIONS") => HasLine("EXCEEDS RESERVATIONS", d - r) /\ d - r > 0
        /\ ~Logged("Total reserved PTUs") => OutcomeLines = {}
        /\ ReportLines(35, 100, 20)[1] = Line("FULLY COVERED", 65)
        /\ ReportLines(150, 100, 20)[1] = Line("EXCEEDS RESERVATIONS", 50)
        /\ ReportLines(10, 0, 10)[1] = Line("NO RESERVATIONS FOUND", 10)

\* the boundary of the comparison: deployed = reserved # 0 is fully covered
\* with slack 0
C3_Witness ==
    /\ pc = "returned"
    /\ total_reserved_ptus # 0
    /\ total_deployed_ptus = total_reserved_ptus
    /\ \E i \in OutcomeLines : log[i] = Line("FULLY COVERED", 0)

\* the capacity the claims count for a record: a missing or null one is 0
C_Capacity(dep) == IF dep.sku.isNone \/ dep.sku.capacity.isNone THEN 0 ELSE dep.sku.capacity.v

\* the sku name, compared case-insensitively, begins with 'provisioned'
C_BeginsWithProvisioned(dep) ==
    /\ ~dep.sku.isNone
    /\ ~dep.sku.name.isNone
    /\ Len(dep.sku.name.v) > 0
    /\ dep.sku.name.v[1] \in {"provisioned", "Provisioned", "PROVISIONED"}

RECURSIVE C_SumDeployed(_)
\* the sum of the capacities of the provisioned deployments of a sequence
C_SumDeployed(deps) ==
    IF deps = << >> THEN 0
    ELSE C_SumDeployed(SubSeq(deps, 1, Len(deps) - 1))
         + (IF C_BeginsWithProvisioned(deps[Len(deps)]) THEN C_Capacity(deps[Len(deps)]) ELSE 0)

\* the sku-description is present and contains 'Provisioned Throughput'
C_IsPTU(reservation) ==
    /\ ~reservation.sku_description.isNone
    /\ \E i \in 1..Len(reservation.sku_description.v) :
          /\ i + 2 <= Len(reservation.sku_description.v)
          /\ reservation.sku_description.v[i] = "Provisioned"
          /\ reservation.sku_description.v[i + 1] = " "
          /\ reservation.sku_description.v[i + 2] = "Throughput"

RECURSIVE C_SumReserved(_)
\* the sum of the quantities of the PTU reservations of a sequence
C_SumReserved(rs) ==
    IF rs = << >> THEN 0
    ELSE C_SumReserved(SubSeq(rs, 1, Len(rs) - 1))
         + (IF C_IsPTU(rs[Len(rs)]) /\ ~rs[Len(rs)].quantity.isNone
            THEN rs[Len(rs)].quantity.v ELSE 0)

\* C4: when the reservation enumeration raises (creating the client, listing
\* the orders, listing the reservations of an order), a warning is logged,
\* total-reserved is the sum accumulated before the failure, and the check goes
\* on to the classification with the deployed total it had computed; neither
\* the checker's own error boundary nor the handler's is reached.
C4_ReservationFailure ==
    Logged("Could not query reservations") =>
        /\ pc \in {"report", "complete", "returned"}
        /\ total_reserved_ptus = C_SumReserved(reservations)
        /\ \E i \in 1..Len(log) : log[i] = Line("Total deployed PTUs", total_deployed_ptus)
        /\ ~Logged("Error checking PTU capacity")
        /\ ~Logged("Error processing deployment event")
        /\ pc # "report" =>
              /\ \E i \in 1..Len(log) : log[i] = Line("Total reserved PTUs", total_reserved_ptus)
              /\ Cardinality(OutcomeLines) = 1

\* the enumeration failed after a reservation of 25 had been counted, and the
\* check classified with that partial sum
C4_Witness ==
    /\ Logged("Could not query reservations")
    /\ Len(reservations) = 1
    /\ total_reserved_ptus = 25
    /\ Cardinality(OutcomeLines) = 1
    /\ pc = "returned"

\* C5: when the deployment enumeration completes, total-deployed is the sum of
\* sku-capacity (missing or null counted as 0) over exactly the deployments
\* whose sku name begins, case-insensitively, with 'provisioned'; deployments
\* with no sku, no sku name or another sku name add nothing.
C5_TotalDeployed ==
    /\ pc \in {"deployment_loop", "deployments_listed"} =>
          total_deployed_ptus = C_SumDeployed(deployments)
    /\ pc = "deployments_listed" =>
          \E i \in 1..Len(log) : log[i] = Line("Total deployed PTUs", C_SumDeployed(deployments))

\* the enumeration completed over a 'Provisioned...' deployment of 10 and a
\* 'Standard' deployment of 20: the total is 10
C5_Witness ==
    /\ pc = "deployments_listed"
    /\ Len(deployments) = 2
    /\ deployments[1].sku = [isNone |-> FALSE, name |-> SomeStr(<< "Provisioned", "Managed" >>),
                             capacity |-> SomeInt(10)]
    /\ deployments[2].sku = [isNone |-> FALSE, name |-> SomeStr(<< "Standard" >>),
                             capacity |-> SomeInt(20)]
    /\ total_deployed_ptus = 10

\* the last provisioned deployment of a sequence that bears the target name
C_LastProvisionedTarget(deps, target) ==
    LET hits == {i \in 1..Len(deps) : C_BeginsWithProvisioned(deps[i]) /\ deps[i].name = target}
    IN  IF hits = {} THEN 0 ELSE CHOOSE i \in hits : \A j \in hits : j <= i

\* C6 as stated: whenever an enumerated deployment bears the target name, its
\* own capacity (null counted as 0) is recorded as new-deployment-capacity,
\* whatever its sku; if no enumerated deployment bears it, the value stays 0.
C6_OriginalAnySku ==
    pc = "deployment_loop" =>
        /\ (Len(deployments) > 0 /\ deployments[Len(deployments)].name = deployment_name) =>
              new_deployment_ptus = C_Capacity(deployments[Len(deployments)])
        /\ (\A i \in 1..Len(deployments) : deployments[i].name # deployment_name) =>
              new_deployment_ptus = 0

\* C6 as amended: whenever an enumerated deployment whose sku name begins,
\* case-insensitively, with 'provisioned' bears the target name, its own
\* capacity (null counted as 0) is recorded as new-deployment-capacity; a
\* deployment of the target name with no sku, no sku name or another sku
\* leaves the value as it was; if no enumerated provisioned deployment bears
\* the target name, the value stays 0.
C6_NewDeploymentProvisionedOnly ==
    pc \in {"deployment_loop", "deployments_listed"} =>
        LET last == C_LastProvisionedTarget(deployments, deployment_name)
        IN  new_deployment_ptus = IF last = 0 THEN 0 ELSE C_Capacity(deployments[last])

\* the target deployment d1 was enumerated as a provisioned deployment of 20
\* and recorded, and a later 'Standard' deployment of the same name and
\* capacity 10 left the record alone
C6_Witness ==
    /\ pc = "deployments_listed"
    /\ deployment_name = << "d1" >>
    /\ Len(deployments) = 2
    /\ deployments[1] = [name |-> << "d1" >>,
                         sku |-> [isNone |-> FALSE, name |-> SomeStr(<< "Provisioned", "Managed" >>),
                                  capacity |-> SomeInt(20)]]
    /\ deployments[2] = [name |-> << "d1" >>,
                         sku |-> [isNone |-> FALSE, name |-> SomeStr(<< "Standard" >>),
                                  capacity |-> SomeInt(10)]]
    /\ new_deployment_ptus = 20

\* C7: when the reservation enumeration completes without error,
\* total-reserved is the sum of quantity (missing or null counted as 0) over
\* exactly the reservations, of all orders, whose sku-description is present
\* and contains 'Provisioned Throughput'; the others add nothing.
C7_TotalReserved ==
    /\ pc \in {"order_loop", "reservation_loop", "report"} =>
          total_reserved_ptus = C_SumReserved(reservations)
    /\ (Logged("Total reserved PTUs") /\ ~Logged("Could not query reservations")) =>
          /\ total_reserved_ptus = C_SumReserved(reservations)
          /\ \E i \in 1..Len(log) : log[i] = Line("Total reserved PTUs", C_SumReserved(reservations))

\* two orders were enumerated to the end: a matching reservation of 25 and a
\* 'provisioned throughput' (lower case) reservation of 10 give 25
C7_Witness ==
    /\ pc = "returned"
    /\ ~Logged("Could not query reservations")
    /\ orders = 2
    /\ Len(reservations) = 2
    /\ reservations[1].quantity = SomeInt(25)
    /\ C_IsPTU(reservations[1])
    /\ reservations[2] = [sku_description |-> SomeStr(<< "provisioned", " ", "throughput" >>),
                          quantity |-> SomeInt(10)]
    /\ total_reserved_ptus = 25

\* the number of segments a string splits into on '/'
C_Segments(s) == 1 + Cardinality({i \in 1..Len(s) : s[i] = "/"})

\* the subject of the event has passed the filter and been split
C_Extracted == Logged("AI deployment detected") /\ pc # "extract"

\* C8 as stated: for every event that passes the filter and whose subject has
\* fewer than 11 segments, deployment-name is 'unknown', no index error is
\* raised extracting the segments, and the checker is invoked with 'unknown'.
C8_OriginalFewerThan11 ==
    (C_Extracted /\ C_Segments(event.subject) < 11) =>
        /\ deployment_name = Unknown
        /\ ~Logged("Error processing deployment event")
        /\ CheckerInvoked

\* C8 as amended: for every event that passes the filter and whose subject has
\* 9 or 10 segments, deployment-name is 'unknown', no index error is raised and
\* the checker is invoked with 'unknown'; with fewer than 9 segments the
\* extraction of an earlier segment raises an index error, which the handler's
\* boundary logs: the checker is not invoked and the handler returns success.
C8_Unknown9Or10 ==
    /\ (C_Extracted /\ C_Segments(event.subject) \in {9, 10}) =>
          /\ deployment_name = Unknown
          /\ ~Logged("Error processing deployment event")
          /\ CheckerInvoked
    /\ (C_Extracted /\ C_Segments(event.subject) < 9) =>
          /\ Logged("Error processing deployment event")
          /\ ~CheckerInvoked
          /\ pc \in {"complete", "returned"}
          /\ pc = "returned" => result = Success

\* the account subject (9 segments) reached the checker with 'unknown'
C8_Witness ==
    /\ CheckerInvoked
    /\ C_Segments(event.subject) = 9
    /\ deployment_name = Unknown
    /\ account_name = << "acct1" >>
    /\ pc = "returned"

\* C9: in every state of a capacity check total-deployed, total-reserved and
\* new-deployment-capacity are non-negative integers, whatever capacities and
\* quantities (null and missing included) the records carry.
C9_NonNegativeTotals ==
    /\ total_deployed_ptus \in Nat
    /\ total_reserved_ptus \in Nat
    /\ new_deployment_ptus \in Nat

\* a matching reservation without a quantity was counted as 0 beside one of
\* 25, after deployments had been counted
C9_Witness ==
    /\ pc = "returned"
    /\ Len(reservations) = 2
    /\ C_IsPTU(reservations[1])
    /\ reservations[1].quantity.isNone
    /\ total_reserved_ptus = 25
    /\ total_deployed_ptus = 20
    /\ new_deployment_ptus = 0

\* C10: when the credential, the deployment client or the deployment
\* enumeration raises, check_ptu_capacity catches it: the reservation
\* enumeration is not started, no outcome is emitted, the handler's boundary
\* is not reached, and the handler logs completion and returns success. An
\* outcome is emitted only after the deployment enumeration has completed.
C10_CheckerFailure ==
    /\ Logged("Error checking PTU capacity") =>
          /\ pc \in {"complete", "returned"}
          /\ orders = 0
          /\ reservations = << >>
          /\ ~Logged("Total deployed PTUs")
          /\ ~Logged("Total reserved PTUs")
          /\ ~Logged("Could not query reservations")
          /\ OutcomeLines = {}
          /\ ~Logged("Error processing deployment event")
          /\ pc = "returned" => Logged("Event processing complete") /\ result = Success
    /\ Logged("Error processing deployment event") => ~CheckerInvoked
    /\ CheckerInvoked =>
          \/ pc \in {"credential", "cog_client", "deployment_loop"}
          \/ Logged("Error checking PTU capacity")
          \/ Logged("Total deployed PTUs")
    /\ OutcomeLines # {} => Logged("Total deployed PTUs")

\* a page of deployments raised after one deployment had been counted, and
\* the handler returned
C10_Witness ==
    /\ Logged("Error checking PTU capacity")
    /\ Len(deployments) = 1
    /\ total_deployed_ptus = 10
    /\ pc = "returned"

====
